---- MODULE Spec2Model ----
(***************************************************************************)
(* tap-prefect, src/tap_prefect/streams.py: the request / pagination /     *)
(* extraction pipeline of the three record sources (flow_runs, task_runs,  *)
(* events).                                                                *)
(*                                                                         *)
(* Python values are represented as follows.                               *)
(*   str | None        a TLA+ string; None is the string "None"            *)
(*   tuple / dict|None a TLA+ tuple or function; None is <<>>              *)
(*   dict              a TLA+ function whose DOMAIN is the set of keys     *)
(*   list              a TLA+ sequence                                     *)
(***************************************************************************)
EXTENDS Integers, Sequences, FiniteSets, TLC

VARIABLES
    stream,          \* which record source this run is ("events" | "flow_runs")
    config,          \* self.config: dict of the configured settings
    context,         \* the context the run was started with
    cursor,          \* replication cursor the run starts from, or None
    bookmark,        \* replication cursor held by the state store
    progress,        \* highest replication key emitted by the run so far
    pc,              \* position of the run
    error,           \* the exception that ended the run, or None
    paginator,       \* [_value, _finished, _page_count]
    request_counter, \* [value, context] of metrics.http_request_counter
    prepared_request,\* request built for the current page
    resp,            \* JSON body of the current response
    yielded,         \* how many records of parse_response(resp) were yielded
    requests,        \* history: every request built, in order
    responses,       \* history: every response body received, in order
    dispatched,      \* history: number of calls of decorated_request
    emitted,         \* history: every record the run yielded, in order
    flow,            \* flow_runs run: paginator, current page, histories
    child            \* task_runs child run: context, paginator, history

vars == <<stream, config, context, cursor, bookmark, progress, pc, error, paginator,
          request_counter, prepared_request, resp, yielded, requests,
          responses, dispatched, emitted, flow, child>>

---------------------------------------------------------------------------
(* Bounds of the model. *)

\* responses an events run may receive before the server stops sending links
MaxPages == 3
\* pages of a flow_runs run, and of each task_runs child run
MaxFlowPages == 2
MaxChildPages == 2

---------------------------------------------------------------------------
(* Python helpers. *)

None == "None"
NoneT == <<>>

\* truth value of a str | None
Truthy(s) == s # None /\ s # ""

\* truth value of a tuple | None (a non-empty tuple is true)
TruthyT(t) == Len(t) > 0

\* a or b
PyOr(a, b) == IF Truthy(a) THEN a ELSE b

\* d.get(k)
Get(d, k) == IF k \in DOMAIN d THEN d[k] ELSE None

---------------------------------------------------------------------------
(* Inputs. *)

ConfigKeys == {"account_id", "workspace_id", "start_date"}

ConfigValue(k) ==
    CASE k = "account_id"   -> "acct"
      [] k = "workspace_id" -> "ws"
      [] k = "start_date"   -> "t0"

\* every configuration with any subset of the three settings present
Configs == { [k \in D |-> ConfigValue(k)] : D \in SUBSET ConfigKeys }

\* the context of a top-level run: empty, or some partition dict
Contexts == { [k \in D |-> "x"] : D \in SUBSET {"tenant"} }

\* timestamps in increasing order
TimeOrder == <<"t0", "t1", "t2">>

Rank(t) == IF t = None THEN 0
           ELSE CHOOSE i \in 1..Len(TimeOrder) : TimeOrder[i] = t

Cursors == {None, "t1"}

E1 == [id |-> "e1", occurred |-> "t1"]
E2 == [id |-> "e2", occurred |-> "t2"]

EventLists == {<<>>, <<E1>>, <<E2, E1>>}

LinkA == "https://api/events?cursor=a"
LinkB == "HTTPS://api/events?cursor=b"

Links == {LinkA, LinkB}

\* what a body may hold under "next_page": null, the empty string, a link
NextPages == {None, ""} \cup Links

\* a JSON body with the given fields present
Body(hasEvents, events, hasNext, next) ==
    [k \in (IF hasEvents THEN {"events"} ELSE {}) \cup
           (IF hasNext THEN {"next_page"} ELSE {})
       |-> IF k = "events" THEN events ELSE next]

---------------------------------------------------------------------------
(* urllib.parse, as used by the HATEOAS paginator and by prepare_request.  *)

\* urlparse(url): (scheme, netloc, path, params, query, fragment); the
\* scheme is lower-cased, the other components are kept as written
urlparse(url) ==
    CASE url = LinkA -> <<"https", "api", "/events", "", "cursor=a", "">>
      [] url = LinkB -> <<"https", "api", "/events", "", "cursor=b", "">>

\* ParseResult.geturl(): the components put together again
geturl(p) ==
    p[1] \o "://" \o p[2] \o p[3]
         \o (IF p[4] # "" THEN ";" \o p[4] ELSE "")
         \o (IF p[5] # "" THEN "?" \o p[5] ELSE "")
         \o (IF p[6] # "" THEN "#" \o p[6] ELSE "")

---------------------------------------------------------------------------
(* MyHATEOASPaginator. *)

get_new_paginator == [_value |-> NoneT, _finished |-> FALSE, _page_count |-> 0]

\* faulty variant: the link is read from a field the body does not carry
get_next_url_wrong_field(response) == Get(response, "next")

get_next_url(response) == Get(response, "next_page")

get_next(response) ==
    LET next_url == get_next_url(response)
    IN  IF Truthy(next_url) THEN urlparse(next_url) ELSE NoneT

\* advance raises RuntimeError when the new token equals the current one
advance_raises(p, response) ==
    LET new_value == get_next(response)
    IN  TruthyT(new_value) /\ new_value = p._value

advance(p, response) ==
    LET new_value == get_next(response)
        counted   == [p EXCEPT !._page_count = @ + 1]
    IN  IF advance_raises(p, response) THEN counted
        ELSE IF ~TruthyT(new_value) THEN [counted EXCEPT !._finished = TRUE]
        ELSE [counted EXCEPT !._value = new_value]

---------------------------------------------------------------------------
(* EventStream. *)

rest_method == "POST"

url_base == "https://api"

path_raises(cfg) == ~({"account_id", "workspace_id"} \subseteq DOMAIN cfg)

EventStream_path(cfg) ==
    "/accounts/" \o cfg["account_id"] \o "/workspaces/" \o cfg["workspace_id"]
                 \o "/events/filter"

get_url(p) == url_base \o p

get_starting_replication_key_value == cursor

\* faulty variant: the filter is sent again when a link is followed
EventStream_prepare_request_payload_always(cfg, start, next_page_token) ==
    [limit  |-> 50,
     filter |-> [occurred |-> [since |-> PyOr(start, Get(cfg, "start_date"))],
                 event    |-> [exclude_name |-> <<"prefect.log.write">>],
                 order    |-> "ASC"]]

EventStream_prepare_request_payload(cfg, start, next_page_token) ==
    LET starting_date == PyOr(start, Get(cfg, "start_date"))
        params ==
          [limit  |-> 50,
           filter |-> [occurred |-> [since |-> starting_date],
                       event    |-> [exclude_name |-> <<"prefect.log.write">>],
                       order    |-> "ASC"]]
    IN  IF TruthyT(next_page_token) THEN NoneT ELSE params

\* the first definition of prepare_request in the class body, which the
\* second one replaces
EventStream_prepare_request_shadowed(cfg, start, next_page_token) ==
    [method |-> IF TruthyT(next_page_token) THEN "POST" ELSE rest_method,
     url    |-> get_url(EventStream_path(cfg)),
     params |-> None,
     json   |-> EventStream_prepare_request_payload(cfg, start, next_page_token)]

EventStream_prepare_request(cfg, start, next_page_token) ==
    [method |-> IF TruthyT(next_page_token) THEN "GET" ELSE rest_method,
     url    |-> IF TruthyT(next_page_token) THEN geturl(next_page_token)
                ELSE get_url(EventStream_path(cfg)),
     params |-> None,
     json   |-> EventStream_prepare_request_payload(cfg, start, next_page_token)]

parse_response(response) ==
    IF "events" \in DOMAIN response THEN response["events"] ELSE <<>>

---------------------------------------------------------------------------
(* FlowRunStream and TaskRunSubStream. *)

PAGE_SIZE == "PAGE_SIZE"

F1 == [id |-> "1", expected_start_time |-> "t1"]
F2 == [id |-> "2", expected_start_time |-> "t2"]

\* the record lists a flow_runs page may hold
FlowPages == {<<>>, <<F2>>, <<F1, F2>>}

\* the offset tokens of the pages after the first, in order
Offsets == <<"50", "100", "150">>

\* faulty variant: the configured start date wins over the cursor
FlowRunStream_prepare_request_payload_startfirst(cfg, start, next_page_token) ==
    [sort      |-> "EXPECTED_START_TIME_ASC",
     offset    |-> next_page_token,
     limit     |-> PAGE_SIZE,
     flow_runs |-> [expected_start_time |->
                       [after_ |-> PyOr(Get(cfg, "start_date"), start)]]]

FlowRunStream_prepare_request_payload(cfg, start, next_page_token) ==
    LET starting_date == PyOr(start, Get(cfg, "start_date"))
    IN  [sort      |-> "EXPECTED_START_TIME_ASC",
         offset    |-> next_page_token,
         limit     |-> PAGE_SIZE,
         flow_runs |-> [expected_start_time |-> [after_ |-> starting_date]]]

get_child_context(record, ctx) == [flow_id |-> record.id]

\* faulty variant: the child filters by the replication cursor as its parent does
TaskRunSubStream_prepare_request_payload_withcursor(ctx, next_page_token) ==
    [sort      |-> "EXPECTED_START_TIME_ASC",
     offset    |-> next_page_token,
     limit     |-> PAGE_SIZE,
     flow_runs |-> [id |-> [any_ |-> <<Get(ctx, "flow_id")>>],
                    expected_start_time |-> [after_ |-> cursor]]]

TaskRunSubStream_prepare_request_payload(ctx, next_page_token) ==
    LET flow_id == Get(ctx, "flow_id")
    IN  [sort      |-> "EXPECTED_START_TIME_ASC",
         offset    |-> next_page_token,
         limit     |-> PAGE_SIZE,
         flow_runs |-> [id |-> [any_ |-> <<flow_id>>]]]

---------------------------------------------------------------------------
(* The bookmark kept by the state store. *)

increment_state(mark, value) ==
    IF Rank(value) > Rank(mark) THEN value ELSE mark

finalize_state(mark, reached) ==
    IF Rank(reached) > Rank(mark) THEN reached ELSE mark

---------------------------------------------------------------------------
(* EventStream.request_records. *)

NoFlow == [token |-> None, finished |-> FALSE, pages |-> 0, records |-> <<>>,
           more |-> FALSE, idx |-> 0, requests |-> <<>>, emitted |-> <<>>]

NoChild == [context |-> NoneT, token |-> None, pages |-> 0, requests |-> <<>>]

Init ==
    /\ stream \in {"events", "flow_runs"}
    /\ config \in Configs
    /\ context \in Contexts
    /\ cursor \in Cursors
    /\ bookmark = cursor
    /\ progress = None
    /\ pc = "start"
    /\ error = None
    /\ paginator = get_new_paginator
    /\ request_counter = [value |-> 0, context |-> NoneT]
    /\ prepared_request = NoneT
    /\ resp = NoneT
    /\ yielded = 0
    /\ requests = <<>>
    /\ responses = <<>>
    /\ dispatched = 0
    /\ emitted = <<>>
    /\ flow = NoFlow
    /\ child = NoChild

\* lines 253-258: the paginator and the request counter; self.path raises
\* KeyError when account_id or workspace_id is not configured
Begin ==
    /\ stream = "events"
    /\ pc = "start"
    /\ paginator' = get_new_paginator
    /\ IF path_raises(config)
       THEN /\ pc' = "error"
            /\ error' = "KeyError"
            /\ UNCHANGED request_counter
       ELSE /\ pc' = "loop"
            /\ request_counter' = [value |-> 0, context |-> context]
            /\ UNCHANGED error
    /\ UNCHANGED <<stream, config, context, cursor, bookmark, progress, prepared_request,
                   resp, yielded, requests, responses, dispatched, emitted, flow, child>>

\* faulty variant: the loop does not test paginator.finished
Prepare_unguarded ==
    /\ stream = "events"
    /\ pc = "loop"
    /\ LET req == EventStream_prepare_request(
                      config, get_starting_replication_key_value, paginator._value)
       IN  /\ prepared_request' = req
           /\ requests' = Append(requests, req)
    /\ pc' = "prepared"
    /\ UNCHANGED <<stream, config, context, cursor, bookmark, progress, error,
                   paginator, request_counter, resp, yielded, responses,
                   dispatched, emitted, flow, child>>

\* lines 260-266: the loop test and prepare_request
Prepare ==
    /\ stream = "events"
    /\ pc = "loop"
    /\ ~paginator._finished
    /\ LET npt == paginator._value
           req == EventStream_prepare_request(
                      config, get_starting_replication_key_value, npt)
       IN  /\ prepared_request' = req
           /\ requests' = Append(requests, req)
    /\ pc' = "prepared"
    /\ UNCHANGED <<stream, config, context, cursor, bookmark, progress, error, paginator,
                   request_counter, resp, yielded, responses, dispatched,
                   emitted, flow, child>>

\* lines 267-269: the request is sent and answered, and counted
DispatchOk ==
    /\ stream = "events"
    /\ pc = "prepared"
    /\ \E hasEvents \in BOOLEAN, events \in EventLists,
          hasNext \in BOOLEAN, next \in NextPages :
          /\ hasEvents \/ events = <<>>
          /\ hasNext \/ next = None
          /\ next \in Links => Len(responses) + 1 < MaxPages
          /\ resp' = Body(hasEvents, events, hasNext, next)
          /\ responses' = Append(responses, resp')
    /\ dispatched' = dispatched + 1
    /\ request_counter' = [request_counter EXCEPT !.value = @ + 1]
    /\ yielded' = 0
    /\ pc' = "parsed"
    /\ UNCHANGED <<stream, config, context, cursor, bookmark, progress, error, paginator,
                   prepared_request, requests, emitted, flow, child>>

\* faulty variant: the failure is caught and the page is requested again
DispatchFails_swallowed ==
    /\ stream = "events"
    /\ pc = "prepared"
    /\ dispatched' = dispatched + 1
    /\ pc' = "loop"
    /\ error' = "RequestException"
    /\ UNCHANGED <<stream, config, context, cursor, bookmark, progress, paginator,
                   request_counter, prepared_request, resp, yielded, requests,
                   responses, emitted, flow, child>>

\* line 267: decorated_request raises (transport or HTTP failure)
DispatchFails ==
    /\ stream = "events"
    /\ pc = "prepared"
    /\ dispatched' = dispatched + 1
    /\ pc' = "error"
    /\ error' = "RequestException"
    /\ UNCHANGED <<stream, config, context, cursor, bookmark, progress, paginator,
                   request_counter, prepared_request, resp, yielded, requests,
                   responses, emitted, flow, child>>

\* faulty variant: the records of a page are yielded last to first
Yield_reversed ==
    /\ stream = "events"
    /\ pc = "parsed"
    /\ yielded < Len(parse_response(resp))
    /\ LET record == parse_response(resp)[Len(parse_response(resp)) - yielded]
       IN  /\ emitted' = Append(emitted, record)
           /\ progress' = increment_state(progress, record.occurred)
    /\ yielded' = yielded + 1
    /\ UNCHANGED <<stream, config, context, cursor, bookmark, pc, error, paginator,
                   request_counter, prepared_request, resp, requests,
                   responses, dispatched, flow, child>>

\* line 270: the next record of the page is yielded
Yield ==
    /\ stream = "events"
    /\ pc = "parsed"
    /\ yielded < Len(parse_response(resp))
    /\ LET record == parse_response(resp)[yielded + 1]
       IN  /\ emitted' = Append(emitted, record)
           /\ progress' = increment_state(progress, record.occurred)
    /\ yielded' = yielded + 1
    /\ UNCHANGED <<stream, config, context, cursor, bookmark, pc, error, paginator,
                   request_counter, prepared_request, resp, requests,
                   responses, dispatched, flow, child>>

\* line 272: the page is exhausted and the paginator advances
Advance ==
    /\ stream = "events"
    /\ pc = "parsed"
    /\ yielded = Len(parse_response(resp))
    /\ paginator' = advance(paginator, resp)
    /\ IF advance_raises(paginator, resp)
       THEN pc' = "error" /\ error' = "RuntimeError"
       ELSE pc' = "loop" /\ UNCHANGED error
    /\ UNCHANGED <<stream, config, context, cursor, bookmark, progress, request_counter,
                   prepared_request, resp, yielded, requests, responses,
                   dispatched, emitted, flow, child>>

\* line 260: the paginator is finished, the generator returns
Finish ==
    /\ stream = "events"
    /\ pc = "loop"
    /\ paginator._finished
    /\ pc' = "done"
    /\ bookmark' = finalize_state(bookmark, progress)
    /\ UNCHANGED <<stream, config, context, cursor, progress, error, paginator,
                   request_counter, prepared_request, resp, yielded, requests,
                   responses, dispatched, emitted, flow, child>>

---------------------------------------------------------------------------
(* A flow_runs run and the task_runs child runs it starts, one per record. *)

FlowBegin ==
    /\ stream = "flow_runs"
    /\ pc = "start"
    /\ IF path_raises(config)
       THEN pc' = "error" /\ error' = "KeyError"
       ELSE pc' = "f_loop" /\ UNCHANGED error
    /\ UNCHANGED <<stream, config, context, cursor, bookmark, progress, paginator,
                   request_counter, prepared_request, resp, yielded, requests,
                   responses, dispatched, emitted, flow, child>>

FlowPrepare ==
    /\ stream = "flow_runs"
    /\ pc = "f_loop"
    /\ ~flow.finished
    /\ flow' = [flow EXCEPT !.requests = Append(@,
                   FlowRunStream_prepare_request_payload(
                       config, get_starting_replication_key_value, flow.token))]
    /\ pc' = "f_prepared"
    /\ UNCHANGED <<stream, config, context, cursor, bookmark, progress, error, paginator,
                   request_counter, prepared_request, resp, yielded, requests,
                   responses, dispatched, emitted, child>>

FlowResponse ==
    /\ stream = "flow_runs"
    /\ pc = "f_prepared"
    /\ \E records \in FlowPages, more \in BOOLEAN :
          /\ more => flow.pages + 1 < MaxFlowPages
          /\ flow' = [flow EXCEPT !.records = records, !.more = more,
                                  !.idx = 0, !.pages = @ + 1]
    /\ pc' = "f_parsed"
    /\ UNCHANGED <<stream, config, context, cursor, bookmark, progress, error, paginator,
                   request_counter, prepared_request, resp, yielded, requests,
                   responses, dispatched, emitted, child>>

\* a flow-run record is emitted and its child context derived
FlowYield ==
    /\ stream = "flow_runs"
    /\ pc = "f_parsed"
    /\ flow.idx < Len(flow.records)
    /\ LET record == flow.records[flow.idx + 1]
       IN  /\ flow' = [flow EXCEPT !.idx = @ + 1, !.emitted = Append(@, record)]
           /\ child' = [child EXCEPT !.context = get_child_context(record, context),
                                     !.token = None, !.pages = 0]
           /\ progress' = increment_state(progress, record.expected_start_time)
    /\ pc' = "c_loop"
    /\ UNCHANGED <<stream, config, context, cursor, bookmark, error, paginator,
                   request_counter, prepared_request, resp, yielded, requests,
                   responses, dispatched, emitted>>

ChildPrepare ==
    /\ stream = "flow_runs"
    /\ pc = "c_loop"
    /\ child' = [child EXCEPT !.requests = Append(@,
                    [n       |-> Len(flow.emitted),
                     context |-> child.context,
                     json    |-> TaskRunSubStream_prepare_request_payload(
                                     child.context, child.token)])]
    /\ pc' = "c_prepared"
    /\ UNCHANGED <<stream, config, context, cursor, bookmark, progress, error, paginator,
                   request_counter, prepared_request, resp, yielded, requests,
                   responses, dispatched, emitted, flow>>

ChildResponse ==
    /\ stream = "flow_runs"
    /\ pc = "c_prepared"
    /\ \E more \in BOOLEAN :
          /\ more => child.pages + 1 < MaxChildPages
          /\ IF more
             THEN /\ child' = [child EXCEPT !.pages = @ + 1,
                                            !.token = Offsets[child.pages + 1]]
                  /\ pc' = "c_loop"
             ELSE /\ child' = [child EXCEPT !.pages = @ + 1]
                  /\ pc' = "f_parsed"
    /\ UNCHANGED <<stream, config, context, cursor, bookmark, progress, error, paginator,
                   request_counter, prepared_request, resp, yielded, requests,
                   responses, dispatched, emitted, flow>>

FlowAdvance ==
    /\ stream = "flow_runs"
    /\ pc = "f_parsed"
    /\ flow.idx = Len(flow.records)
    /\ flow' = IF flow.more THEN [flow EXCEPT !.token = Offsets[flow.pages]]
               ELSE [flow EXCEPT !.finished = TRUE]
    /\ pc' = "f_loop"
    /\ UNCHANGED <<stream, config, context, cursor, bookmark, progress, error, paginator,
                   request_counter, prepared_request, resp, yielded, requests,
                   responses, dispatched, emitted, child>>

FlowFinish ==
    /\ stream = "flow_runs"
    /\ pc = "f_loop"
    /\ flow.finished
    /\ pc' = "done"
    /\ bookmark' = finalize_state(bookmark, progress)
    /\ UNCHANGED <<stream, config, context, cursor, progress, error, paginator,
                   request_counter, prepared_request, resp, yielded, requests,
                   responses, dispatched, emitted, flow, child>>

Next ==
    \/ Begin
    \/ Prepare
    \/ DispatchOk
    \/ DispatchFails
    \/ Yield
    \/ Advance
    \/ Finish
    \/ FlowBegin
    \/ FlowPrepare
    \/ FlowResponse
    \/ FlowYield
    \/ ChildPrepare
    \/ ChildResponse
    \/ FlowAdvance
    \/ FlowFinish

Spec == Init /\ [][Next]_vars

\* the run is driven to completion by its single synchronous consumer
FairSpec == Spec /\ WF_vars(Next)

---------------------------------------------------------------------------
(* Properties. *)

\* the cursor if one exists, otherwise the configured start date
CursorOrDefault == IF cursor # None THEN cursor ELSE Get(config, "start_date")

\* the records the response parser yields for a sequence of responses
RECURSIVE Records(_)
Records(bodies) ==
    IF Len(bodies) = 0 THEN <<>>
    ELSE Records(SubSeq(bodies, 1, Len(bodies) - 1))
             \o parse_response(bodies[Len(bodies)])

\* the link a request follows: the link of the response before it
LinkOf(i) == responses[i - 1]["next_page"]

\* a link with its scheme in lower case
NormalForm(link) ==
    CASE link = LinkA -> "https://api/events?cursor=a"
      [] link = LinkB -> "https://api/events?cursor=b"

\* C1 as stated: the first request of an events run is a POST on the record
\* source's own path; every later request is a GET whose URL is exactly the
\* next_page link of the response before it, with no JSON body, and never a
\* POST.
C1_LaterRequestsFollowExactLink ==
    stream = "events" =>
        \A i \in 1..Len(requests) :
            IF i = 1
            THEN /\ requests[i].method = "POST"
                 /\ requests[i].url = get_url(EventStream_path(config))
            ELSE /\ requests[i].method = "GET"
                 /\ requests[i].method # "POST"
                 /\ requests[i].url = LinkOf(i)
                 /\ requests[i].json = NoneT

\* C1 as amended: the first request is a POST on the record source's own
\* path; every later request is a GET, never a POST, with no JSON body, whose
\* URL is the link of the response before it as urlparse(...).geturl() writes
\* it: the link itself when the link is in normal form, and otherwise the
\* link with its scheme in lower case.
C1_LaterRequestsFollowLink ==
    stream = "events" =>
        \A i \in 1..Len(requests) :
            IF i = 1
            THEN /\ requests[i].method = "POST"
                 /\ requests[i].url = "https://api/accounts/acct/workspaces/ws/events/filter"
                 /\ requests[i].url = get_url(EventStream_path(config))
            ELSE /\ requests[i].method = "GET"
                 /\ requests[i].method # "POST"
                 /\ requests[i].url = NormalForm(LinkOf(i))
                 /\ (LinkOf(i) = NormalForm(LinkOf(i)) => requests[i].url = LinkOf(i))
                 /\ requests[i].json = NoneT

\* C1 witness: a third request was built, the second following a link in
\* normal form exactly and the third a link that is not
C1_Witness ==
    /\ stream = "events"
    /\ Len(requests) = 3
    /\ requests[2].url = LinkOf(2)
    /\ requests[3].url # LinkOf(3)

\* C2: the events payload is absent when the page token is truthy, whatever
\* the cursor; without a token it has filter.occurred.since equal to the
\* cursor if one exists and else to the configured start_date, excludes
\* prefect.log.write, is in ascending order and has the limit 50.
C2_EventsPayload ==
    (stream = "events" /\ pc = "prepared") =>
        LET json == prepared_request.json
        IN  IF TruthyT(paginator._value)
            THEN json = NoneT
            ELSE /\ json # NoneT
                 /\ json.filter.occurred.since = CursorOrDefault
                 /\ json.filter.event.exclude_name = <<"prefect.log.write">>
                 /\ json.filter.order = "ASC"
                 /\ json.limit = 50

\* C2 witness: a request was built for a truthy token while a cursor exists
C2_Witness ==
    /\ stream = "events"
    /\ pc = "prepared"
    /\ TruthyT(paginator._value)
    /\ cursor # None
    /\ prepared_request.json = NoneT
    /\ requests[1].json.filter.occurred.since = cursor

\* the paginator has just been advanced with resp
Advanced ==
    /\ stream = "events"
    /\ Len(responses) > 0
    /\ pc = "loop" \/ (pc = "error" /\ error = "RuntimeError")

\* C3 as stated: when the body has a non-null next_page string, get_next_url
\* returns that string and pagination is not finished; when next_page is null
\* or absent, pagination is finished after the page and no error is raised.
C3_NonNullLinkContinues ==
    Advanced =>
        IF "next_page" \in DOMAIN resp /\ resp["next_page"] # None
        THEN /\ get_next_url(resp) = resp["next_page"]
             /\ ~paginator._finished
        ELSE /\ paginator._finished
             /\ error = None

\* C3 as amended: when the body has a non-empty next_page string,
\* get_next_url returns that string and the paginator is not finished: it
\* holds the parsed link as its token, or has raised its loop error because
\* the parsed link is the token it held; when next_page is null, absent or
\* the empty string, pagination is finished after the page and no error is
\* raised.
C3_NonEmptyLinkContinues ==
    Advanced =>
        IF "next_page" \in DOMAIN resp /\ resp["next_page"] \notin {None, ""}
        THEN /\ get_next_url(resp) = resp["next_page"]
             /\ ~paginator._finished
             /\ paginator._value = urlparse(resp["next_page"])
        ELSE /\ paginator._finished
             /\ error = None

\* C3 witness: the paginator was advanced with a body that carries a link
C3_Witness ==
    /\ Advanced
    /\ pc = "loop"
    /\ "next_page" \in DOMAIN resp
    /\ resp["next_page"] = LinkB
    /\ ~paginator._finished

\* C4: once the paginator is finished no further request is built or
\* dispatched, and the run reaches its terminal state done.
C4_FinishedTerminates ==
    /\ [][paginator._finished =>
             /\ requests' = requests
             /\ dispatched' = dispatched
             /\ pc' = "done"]_vars
    /\ (paginator._finished ~> pc = "done")

\* C4 witness: a run of several pages is done
C4_Witness ==
    /\ stream = "events"
    /\ pc = "done"
    /\ paginator._finished
    /\ Len(requests) = MaxPages

\* C5: the records emitted are the records the parser yields for each
\* response, in page order and in the parser's order, none dropped, repeated
\* or moved; all records of a page are emitted before the next request is
\* built.
C5_EmittedInOrder ==
    stream = "events" =>
        LET n == Len(responses)
        IN  /\ emitted =
                  IF n = 0 THEN <<>>
                  ELSE Records(SubSeq(responses, 1, n - 1))
                           \o SubSeq(parse_response(responses[n]), 1, yielded)
            /\ Len(requests) > n => emitted = Records(responses)

\* C5 witness: a request was built after two pages that both held records
C5_Witness ==
    /\ stream = "events"
    /\ Len(requests) = 3
    /\ Len(responses) = 2
    /\ Len(parse_response(responses[1])) = 2
    /\ Len(parse_response(responses[2])) = 1
    /\ Len(emitted) = 3

\* C6: the request counter equals the number of requests dispatched so far,
\* a request whose dispatch fails included, and belongs to the run's context.
C6_CounterCountsDispatches ==
    (stream = "events" /\ pc \notin {"start"} /\ error # "KeyError") =>
        /\ request_counter.value = dispatched
        /\ request_counter.context = context

\* C7: a failed dispatch ends the run in error: no record of the failed
\* page is emitted, the paginator is not advanced, no further request is
\* built or dispatched, and the bookmark is not advanced.
C7_FailureAborts ==
    error = "RequestException" =>
        /\ pc = "error"
        /\ Len(requests) = Len(responses) + 1
        /\ dispatched = Len(requests)
        /\ emitted = Records(responses)
        /\ paginator._page_count = Len(responses)
        /\ ~paginator._finished
        /\ bookmark = cursor
        /\ ~ENABLED Next

\* C7 witness: the dispatch of a later page failed after records that would
\* move the bookmark were emitted
C7_Witness ==
    /\ error = "RequestException"
    /\ Len(responses) = 2
    /\ Rank(progress) > Rank(bookmark)

\* the page token the i-th request of a flow_runs run is built with
FlowToken(i) == IF i = 1 THEN None ELSE Offsets[i - 1]

\* C8: every flow_runs payload has after_ equal to the cursor when there is
\* one, and to the configured start date when there is none; it sorts
\* ascending by expected start time and carries the page token as offset and
\* the page size as limit.
C8_FlowRunsPayload ==
    stream = "flow_runs" =>
        \A i \in 1..Len(flow.requests) :
            LET json == flow.requests[i]
            IN  /\ cursor # None =>
                       json.flow_runs.expected_start_time.after_ = cursor
                /\ (cursor = None /\ "start_date" \in DOMAIN config) =>
                       json.flow_runs.expected_start_time.after_ = config["start_date"]
                /\ json.sort = "EXPECTED_START_TIME_ASC"
                /\ json.offset = FlowToken(i)
                /\ json.limit = PAGE_SIZE

\* C8 witness: a second page was requested while both a cursor and a start
\* date exist
C8_Witness ==
    /\ stream = "flow_runs"
    /\ Len(flow.requests) = 2
    /\ cursor # None
    /\ "start_date" \in DOMAIN config
    /\ flow.requests[2].offset # None

\* C9: the child context of a flow-run record r is {flow_id: r.id} whatever
\* the parent's context; every request body of the child run has
\* flow_runs.id.any_ = [r.id] and no other filter; the child runs follow the
\* order of the parent's records.
C9_ChildScopedToParent ==
    stream = "flow_runs" =>
        /\ \A k \in 1..Len(child.requests) :
              LET q == child.requests[k]
                  r == flow.emitted[q.n]
              IN  /\ q.context = [flow_id |-> r.id]
                  /\ q.json.flow_runs.id.any_ = <<r.id>>
                  /\ DOMAIN q.json.flow_runs = {"id"}
                  /\ k > 1 => child.requests[k - 1].n \in {q.n - 1, q.n}
                  /\ k = 1 => q.n = 1
        /\ pc \in {"f_parsed", "f_loop", "done"} =>
              \A n \in 1..Len(flow.emitted) :
                  \E k \in 1..Len(child.requests) : child.requests[k].n = n

\* C9 witness: records 1 and 2 were emitted by a parent that has a context
\* and a cursor, and the child requests carry [1] and then [2]
C9_Witness ==
    /\ stream = "flow_runs"
    /\ "tenant" \in DOMAIN context
    /\ cursor # None
    /\ Len(flow.emitted) = 2
    /\ Len(child.requests) = 3
    /\ child.requests[1].json.flow_runs.id.any_ = <<"1">>
    /\ child.requests[2].json.flow_runs.id.any_ = <<"1">>
    /\ child.requests[2].json.offset # None
    /\ child.requests[3].json.flow_runs.id.any_ = <<"2">>

\* C10: a run with account_id or workspace_id missing, or with start_date
\* missing and no cursor, ends in error without building a request, and no
\* request is built with an unset lower bound.
C10_MissingConfigIsAnError ==
    /\ (path_raises(config) \/ CursorOrDefault = None) =>
           /\ pc \in {"start", "error"}
           /\ requests = <<>>
           /\ flow.requests = <<>>
    /\ \A i \in 1..Len(requests) :
           requests[i].json # NoneT =>
               requests[i].json.filter.occurred.since # None
    /\ \A i \in 1..Len(flow.requests) :
           flow.requests[i].flow_runs.expected_start_time.after_ # None

====
